---- MODULE Spec2Model ----
(***************************************************************************)
(* Model of the deep-link URL serializer                                   *)
(* (src/src/components/nav/url-serializer.ts).                             *)
(*                                                                         *)
(* A JavaScript string is a sequence of UTF-16 code units (naturals).      *)
(* A JavaScript value that may be null/undefined is a tagged record:       *)
(*   Undefined, Null, Str(s), a component object, a data record, a         *)
(*   NavSegment.  A thrown exception is the value Throw(e).                *)
(***************************************************************************)
EXTENDS Integers, Sequences, FiniteSets, TLC

\* ------------------------------------------------------------------------
\* Strings
\* ------------------------------------------------------------------------

\* The printable ASCII characters, code units 32..126, in code order
\* (code unit 96 is named, not written).
Printable ==
    << " ", "!", "\"", "#", "$", "%", "&", "'", "(", ")", "*", "+", ",", "-", ".", "/",
       "0", "1", "2", "3", "4", "5", "6", "7", "8", "9", ":", ";", "<", "=", ">", "?",
       "@", "A", "B", "C", "D", "E", "F", "G", "H", "I", "J", "K", "L", "M", "N", "O",
       "P", "Q", "R", "S", "T", "U", "V", "W", "X", "Y", "Z", "[", "\\", "]", "^", "_",
       "backtick", "a", "b", "c", "d", "e", "f", "g", "h", "i", "j", "k", "l", "m", "n", "o",
       "p", "q", "r", "s", "t", "u", "v", "w", "x", "y", "z", "{", "|", "}", "~" >>

\* The code unit of a printable character.
Chr(c) == 31 + (CHOOSE i \in 1..Len(Printable) : Printable[i] = c)

\* A string literal, written as the tuple of its characters.
Lit(cs) == [i \in 1..Len(cs) |-> Chr(cs[i])]

Slash    == Chr("/")
Colon    == Chr(":")
Question == Chr("?")
Hash     == Chr("#")
Percent  == Chr("%")

\* s.charAt(0) === c
charAt0Is(s, c) == Len(s) > 0 /\ s[1] = c

\* s.substr(n) / s.substring(n): s without its first n code units
substr(s, n) == IF n >= Len(s) THEN << >> ELSE SubSeq(s, n + 1, Len(s))

\* index of the first occurrence of the code unit sep in s at or after
\* position k, or 0 when there is none
RECURSIVE indexFrom(_, _, _)
indexFrom(s, sep, k) ==
    IF k > Len(s) THEN 0
    ELSE IF s[k] = sep THEN k
    ELSE indexFrom(s, sep, k + 1)

\* s.split(sep) for a one-character separator: never empty, "" gives [""]
RECURSIVE split(_, _)
split(s, sep) ==
    LET k == indexFrom(s, sep, 1) IN
    IF k = 0 THEN << s >>
    ELSE << SubSeq(s, 1, k - 1) >> \o split(substr(s, k), sep)

\* parts.join(sep) for an array of strings
RECURSIVE join(_, _)
join(parts, sep) ==
    IF Len(parts) = 0 THEN << >>
    ELSE IF Len(parts) = 1 THEN parts[1]
    ELSE parts[1] \o << sep >> \o join(Tail(parts), sep)

\* ------------------------------------------------------------------------
\* JavaScript values
\* ------------------------------------------------------------------------

Undefined == [t |-> "undefined"]
Null      == [t |-> "null"]
Str(s)    == [t |-> "string", v |-> s]
Throw(e)  == [t |-> "throw", e |-> e]

\* a component (a class): an object with an identity and a name property
Component(id, name) == [t |-> "object", id |-> id, name |-> Str(name)]

\* a data record: own enumerable string keys mapped to string values
Record(m) == [t |-> "record", m |-> m]

\* an array
Array(a) == [t |-> "array", v |-> a]

\* a NavSegment
Segment(id, name, component, data) ==
    [t |-> "segment", id |-> id, name |-> name, component |-> component, data |-> data]

\* util.isPresent / util.isBlank
isPresent(val) == val # Undefined /\ val # Null
isBlank(val)   == val = Undefined \/ val = Null

\* if (val) ... : ToBoolean of a value of the model
truthy(val) ==
    /\ isPresent(val)
    /\ (val.t = "string" => val.v # << >>)

\* arr[i] for a zero-based index that may be out of range
at(arr, i) == IF i >= 0 /\ i < Len(arr) THEN Str(arr[i + 1]) ELSE Undefined

\* ------------------------------------------------------------------------
\* encodeURIComponent / decodeURIComponent (ECMAScript Encode / Decode)
\* ------------------------------------------------------------------------

\* the characters encodeURIComponent leaves alone: A-Z a-z 0-9 - _ . ! ~ * ' ( )
UriUnescaped ==
    (Chr("A")..Chr("Z")) \cup (Chr("a")..Chr("z")) \cup (Chr("0")..Chr("9"))
    \cup { Chr("-"), Chr("_"), Chr("."), Chr("!"), Chr("~"),
           Chr("*"), Chr("'"), Chr("("), Chr(")") }

uriUnescaped(c) == c \in UriUnescaped

HexDigits == Lit(<< "0", "1", "2", "3", "4", "5", "6", "7", "8", "9",
                    "A", "B", "C", "D", "E", "F" >>)

\* "%XX" for one octet
escapeOctet(b) == << Percent, HexDigits[(b \div 16) + 1], HexDigits[(b % 16) + 1] >>

\* the UTF-8 octets of the code point v
utf8Octets(v) ==
    IF v < 128 THEN << v >>
    ELSE IF v < 2048 THEN << 192 + (v \div 64), 128 + (v % 64) >>
    ELSE IF v < 65536 THEN
        << 224 + (v \div 4096), 128 + ((v \div 64) % 64), 128 + (v % 64) >>
    ELSE << 240 + (v \div 262144), 128 + ((v \div 4096) % 64),
            128 + ((v \div 64) % 64), 128 + (v % 64) >>

RECURSIVE escapeOctets(_)
escapeOctets(os) ==
    IF Len(os) = 0 THEN << >> ELSE escapeOctet(Head(os)) \o escapeOctets(Tail(os))

isHighSurrogate(c) == c >= 55296 /\ c <= 56319
isLowSurrogate(c)  == c >= 56320 /\ c <= 57343

\* prefix followed by the rest of a conversion, unless the rest threw
appendTo(prefix, rest) ==
    IF rest.t = "throw" THEN rest ELSE Str(prefix \o rest.v)

\* the code point of the surrogate pair (high, low)
pairValue(high, low) == (high - 55296) * 1024 + (low - 56320) + 65536

\* Encode from position k on; Throw("URIError") on a lone surrogate
RECURSIVE encodeFrom(_, _)
encodeFrom(s, k) ==
    IF k > Len(s) THEN Str(<< >>)
    ELSE IF uriUnescaped(s[k]) THEN appendTo(<< s[k] >>, encodeFrom(s, k + 1))
    ELSE IF isLowSurrogate(s[k]) THEN Throw("URIError")
    ELSE IF ~isHighSurrogate(s[k]) THEN
        appendTo(escapeOctets(utf8Octets(s[k])), encodeFrom(s, k + 1))
    ELSE IF k + 1 > Len(s) THEN Throw("URIError")
    ELSE IF ~isLowSurrogate(s[k + 1]) THEN Throw("URIError")
    ELSE appendTo(escapeOctets(utf8Octets(pairValue(s[k], s[k + 1]))),
                  encodeFrom(s, k + 2))

\* encodeURIComponent(s): Str(encoded) or Throw("URIError")
encodeURIComponent(s) == encodeFrom(s, 1)

\* the value of each hexadecimal digit, upper or lower case
HexValue ==
    [c \in (Chr("0")..Chr("9")) \cup (Chr("A")..Chr("F")) \cup (Chr("a")..Chr("f")) |->
        IF c <= Chr("9") THEN c - Chr("0")
        ELSE IF c <= Chr("F") THEN c - Chr("A") + 10
        ELSE c - Chr("a") + 10]

isHexDigit(c) == c \in DOMAIN HexValue

hexValue(c) == HexValue[c]

\* whether s holds a well-formed "%XX" at position k
isEscapeAt(s, k) ==
    /\ k + 2 <= Len(s)
    /\ s[k] = Percent
    /\ isHexDigit(s[k + 1])
    /\ isHexDigit(s[k + 2])

octetAt(s, k) == 16 * hexValue(s[k + 1]) + hexValue(s[k + 2])

\* the number of octets a UTF-8 sequence led by b has (0: b cannot lead one)
utf8Length(b) ==
    IF b < 128 THEN 1
    ELSE IF b >= 192 /\ b < 224 THEN 2
    ELSE IF b >= 224 /\ b < 240 THEN 3
    ELSE IF b >= 240 /\ b < 248 THEN 4
    ELSE 0

\* whether the n-1 escapes after the one at k are continuation octets 10xxxxxx
continuationsOk(s, k, n) ==
    \A j \in 1..(n - 1) :
        /\ isEscapeAt(s, k + 3 * j)
        /\ octetAt(s, k + 3 * j) \in 128..191

\* the payload of the j-th continuation octet after the escape at k
continuation(s, k, j) == octetAt(s, k + 3 * j) - 128

\* the code point the n escaped octets at k encode
utf8Value(s, k, n) ==
    IF n = 2 THEN (octetAt(s, k) - 192) * 64 + continuation(s, k, 1)
    ELSE IF n = 3 THEN
        (octetAt(s, k) - 224) * 4096 + continuation(s, k, 1) * 64 + continuation(s, k, 2)
    ELSE (octetAt(s, k) - 240) * 262144 + continuation(s, k, 1) * 4096
            + continuation(s, k, 2) * 64 + continuation(s, k, 3)

\* no overlong form, no surrogate, nothing above U+10FFFF
utf8Valid(v, n) ==
    IF n = 2 THEN v >= 128
    ELSE IF n = 3 THEN v >= 2048 /\ ~(v >= 55296 /\ v <= 57343)
    ELSE v >= 65536 /\ v <= 1114111

\* the UTF-16 code units of the code point v
utf16Units(v) ==
    IF v < 65536 THEN << v >>
    ELSE << 55296 + ((v - 65536) \div 1024), 56320 + ((v - 65536) % 1024) >>

\* the code units of the code point v, if it is one UTF-8 may encode in n
\* octets, followed by the rest of the conversion
appendCodePoint(v, n, rest) ==
    IF ~utf8Valid(v, n) THEN Throw("URIError") ELSE appendTo(utf16Units(v), rest)

\* Decode from position k on; Throw("URIError") on a malformed escape
RECURSIVE decodeFrom(_, _)
decodeFrom(s, k) ==
    IF k > Len(s) THEN Str(<< >>)
    ELSE IF s[k] # Percent THEN appendTo(<< s[k] >>, decodeFrom(s, k + 1))
    ELSE IF ~isEscapeAt(s, k) THEN Throw("URIError")
    ELSE IF utf8Length(octetAt(s, k)) = 0 THEN Throw("URIError")
    ELSE IF utf8Length(octetAt(s, k)) = 1 THEN
        appendTo(<< octetAt(s, k) >>, decodeFrom(s, k + 3))
    ELSE IF ~continuationsOk(s, k, utf8Length(octetAt(s, k))) THEN Throw("URIError")
    ELSE appendCodePoint(utf8Value(s, k, utf8Length(octetAt(s, k))),
                         utf8Length(octetAt(s, k)),
                         decodeFrom(s, k + 3 * utf8Length(octetAt(s, k))))

\* decodeURIComponent(s): Str(decoded) or Throw("URIError")
decodeURIComponent(s) == decodeFrom(s, 1)

\* ------------------------------------------------------------------------
\* Route table: normalizeLinks and sortConfigLinks
\* ------------------------------------------------------------------------

\* a route definition as configured: a name, an optional path, a component
LinkDef(name, path, component) ==
    [name |-> name, path |-> path, component |-> component]

\* the leading run of static parts: parts counted while stillCountinStatic,
\* that is before the first part that starts with ':'
RECURSIVE countStatic(_, _)
countStatic(parts, j) ==
    IF j > Len(parts) THEN 0
    ELSE IF charAt0Is(parts[j], Colon) THEN 0
    ELSE 1 + countStatic(parts, j + 1)

\* every part that starts with ':'
countData(parts) == Cardinality({j \in 1..Len(parts) : charAt0Is(parts[j], Colon)})

\* the body of normalizeLinks' loop for one link
normalizeLink(link) ==
    LET path  == IF isBlank(link.path) THEN Str(link.name) ELSE link.path
        parts == split(path.v, Slash)
    IN  [name        |-> link.name,
         path        |-> path,
         component   |-> link.component,
         parts       |-> parts,
         staticParts |-> countStatic(parts, 1),
         dataParts   |-> countData(parts)]

\* the comparator without its last criterion, the number of data parts
sortConfigLinksNoData(a, b) ==
    IF Len(a.parts) > Len(b.parts) THEN -1
    ELSE IF Len(a.parts) < Len(b.parts) THEN 1
    ELSE IF a.staticParts > b.staticParts THEN -1
    ELSE IF a.staticParts < b.staticParts THEN 1
    ELSE 0

\* the comparator with the number of parts as its only criterion
sortConfigLinksLengthOnly(a, b) ==
    IF Len(a.parts) > Len(b.parts) THEN -1
    ELSE IF Len(a.parts) < Len(b.parts) THEN 1
    ELSE 0

\* the comparator: negative when a sorts before b
sortConfigLinks(a, b) ==
    IF Len(a.parts) > Len(b.parts) THEN -1
    ELSE IF Len(a.parts) < Len(b.parts) THEN 1
    ELSE IF a.staticParts > b.staticParts THEN -1
    ELSE IF a.staticParts < b.staticParts THEN 1
    ELSE IF a.dataParts < b.dataParts THEN -1
    ELSE IF a.dataParts > b.dataParts THEN 1
    ELSE 0

\* sorted with x put after every element that does not sort after it
RECURSIVE insertSorted(_, _)
insertSorted(sorted, x) ==
    IF Len(sorted) = 0 THEN << x >>
    ELSE IF sortConfigLinks(Head(sorted), x) > 0 THEN << x >> \o sorted
    ELSE << Head(sorted) >> \o insertSorted(Tail(sorted), x)

\* the unstable variant: x is put before the elements it ties with
RECURSIVE insertSortedBeforeTies(_, _)
insertSortedBeforeTies(sorted, x) ==
    IF Len(sorted) = 0 THEN << x >>
    ELSE IF sortConfigLinks(Head(sorted), x) >= 0 THEN << x >> \o sorted
    ELSE << Head(sorted) >> \o insertSortedBeforeTies(Tail(sorted), x)

RECURSIVE sortUnstable(_)
sortUnstable(arr) ==
    IF Len(arr) = 0 THEN << >>
    ELSE insertSortedBeforeTies(sortUnstable(SubSeq(arr, 1, Len(arr) - 1)), arr[Len(arr)])

\* links.sort(sortConfigLinks): Array.prototype.sort with a consistent
\* comparator, as an insertion sort (stable; the engines of the time that
\* were not stable in general were stable for short arrays)
RECURSIVE sort(_)
sort(arr) ==
    IF Len(arr) = 0 THEN << >>
    ELSE insertSorted(sort(SubSeq(arr, 1, Len(arr) - 1)), arr[Len(arr)])

\* normalizeLinks(links) for links blank or Array(list); a blank list gives
\* the empty table
normalizeLinks(links) ==
    IF isBlank(links) THEN << >>
    ELSE sort([i \in 1..Len(links.v) |-> normalizeLink(links.v[i])])

\* ------------------------------------------------------------------------
\* parse: parseUrlParts, matchUrlParts, createSegmentFromPart
\* ------------------------------------------------------------------------

isPartMatch(urlPart, configLinkPart) ==
    IF isPresent(urlPart) /\ isPresent(configLinkPart) THEN
        IF charAt0Is(configLinkPart.v, Colon) THEN TRUE
        ELSE urlPart = configLinkPart
    ELSE FALSE

\* data[key] = value, data being Null before the first assignment
assign(data, key, value) ==
    IF data = Null THEN Record([k \in {key} |-> value])
    ELSE Record([k \in (DOMAIN data.m) \cup {key} |-> IF k = key THEN value ELSE data.m[k]])

\* the loop of createMatchedData from part i (one-based) on, data being the
\* record built so far (Null before the first parameter part); decoded is
\* what decodeURIComponent gave for part i
RECURSIVE matchedDataFrom(_, _, _, _)
RECURSIVE matchedDataWith(_, _, _, _, _)
matchedDataWith(decoded, matchedUrlParts, link, i, data) ==
    IF decoded.t = "throw" THEN decoded
    ELSE matchedDataFrom(matchedUrlParts, link, i + 1,
                         assign(data, substr(link.parts[i], 1), decoded.v))

matchedDataFrom(matchedUrlParts, link, i, data) ==
    IF i > Len(link.parts) THEN data
    ELSE IF charAt0Is(link.parts[i], Colon) THEN
        matchedDataWith(decodeURIComponent(matchedUrlParts[i]), matchedUrlParts, link, i, data)
    ELSE matchedDataFrom(matchedUrlParts, link, i + 1, data)

\* Null, a data record, or Throw("URIError")
createMatchedData(matchedUrlParts, link) ==
    matchedDataFrom(matchedUrlParts, link, 1, Null)

\* the segment createSegmentFromPart builds from the joined parts and the
\* matched data, unless createMatchedData threw
matchedSegment(id, data, link) ==
    IF data.t = "throw" THEN data
    ELSE Segment(IF id = << >> THEN Str(link.name) ELSE Str(id),
                 Str(link.name), link.component, data)

\* a segment, Null, or Throw("URIError")
createSegmentFromPart(matchedUrlParts, link) ==
    IF Len(matchedUrlParts) = Len(link.parts)
    THEN matchedSegment(join(matchedUrlParts, Slash),
                        createMatchedData(matchedUrlParts, link), link)
    ELSE Null

\* urlParts.slice(from, to) for zero-based from <= to
slice(arr, from, to) ==
    LET hi == IF to > Len(arr) THEN Len(arr) ELSE to IN
    IF from >= hi THEN << >> ELSE SubSeq(arr, from + 1, hi)

\* partStartIndex is zero-based, as in the code
matchUrlParts(partStartIndex, urlParts, link) ==
    IF \E i \in 0..(Len(link.parts) - 1) :
            ~isPartMatch(at(urlParts, partStartIndex + i), at(link.parts, i))
    THEN Null
    ELSE createSegmentFromPart(
            slice(urlParts, partStartIndex, partStartIndex + Len(link.parts)), link)

\* the inner loop of parseUrlParts from offset i (zero-based) on: the segment
\* (or Null, or a Throw) and the value of the loop variable i after the loop;
\* segment is what matchUrlParts gave at offset i
RECURSIVE scanOffsets(_, _, _)
RECURSIVE scanWith(_, _, _, _)
scanWith(segment, i, urlParts, link) ==
    IF segment.t = "throw" THEN [segment |-> segment, i |-> i]
    ELSE IF segment # Null THEN [segment |-> segment, i |-> i + (Len(link.parts) - 1)]
    ELSE scanOffsets(i + 1, urlParts, link)

scanOffsets(i, urlParts, link) ==
    IF i >= Len(urlParts) THEN [segment |-> Null, i |-> i]
    ELSE scanWith(matchUrlParts(i, urlParts, link), i, urlParts, link)

\* the segment pushed after the inner loop: the fallback when it found none
segmentAfterScan(scan, urlParts) ==
    IF scan.segment = Null
    THEN Segment(at(urlParts, scan.i), at(urlParts, scan.i), Null, Null)
    ELSE scan.segment

\* the segment one link contributes to the path (or a Throw)
linkSegment(urlParts, link) ==
    segmentAfterScan(scanOffsets(0, urlParts, link), urlParts)

\* the path of the segments, or the first Throw among them
pathOrThrow(segments) ==
    IF \E j \in 1..Len(segments) : segments[j].t = "throw"
    THEN segments[CHOOSE j \in 1..Len(segments) :
                    /\ segments[j].t = "throw"
                    /\ \A k \in 1..(j - 1) : segments[k].t # "throw"]
    ELSE Array(segments)

\* a NavPath, Array(segments), or the first Throw
parseUrlParts(urlParts, configLinks) ==
    pathOrThrow([j \in 1..Len(configLinks) |-> linkSegment(urlParts, configLinks[j])])

\* the URL parts parse hands to parseUrlParts: the path without its leading
\* '/', cut at the first '?' and the first '#', split at '/'
urlPartsOf(browserUrl) ==
    LET url1 == IF charAt0Is(browserUrl, Slash) THEN substr(browserUrl, 1) ELSE browserUrl
        url2 == split(split(url1, Question)[1], Hash)[1]
    IN  split(url2, Slash)

\* UrlSerializer.parse
parse(browserUrl, links) == parseUrlParts(urlPartsOf(browserUrl), links)

\* ------------------------------------------------------------------------
\* serialize, createSegment, serializeComponent, createSegmentFromName
\* ------------------------------------------------------------------------

\* value.name for a value that is not null or undefined
nameOf(value) == IF value.t = "object" THEN value.name ELSE Undefined

\* Array.prototype.join over values: null and undefined give ''
RECURSIVE joinValues(_, _)
joinValues(values, sep) ==
    LET text(v) == IF isBlank(v) THEN << >> ELSE v.v IN
    IF Len(values) = 0 THEN << >>
    ELSE IF Len(values) = 1 THEN text(values[1])
    ELSE text(values[1]) \o << sep >> \o joinValues(Tail(values), sep)

\* serialize without the leading '/'
serializeNoPrefix(path) ==
    IF \E k \in 1..Len(path) : isBlank(path[k]) THEN Throw("TypeError")
    ELSE Str(joinValues([k \in 1..Len(path) |-> path[k].id], Slash))

\* UrlSerializer.serialize for a path (a sequence of segments, or of null
\* where a caller passes what serializeComponent returned)
serialize(path) ==
    IF \E k \in 1..Len(path) : isBlank(path[k]) THEN Throw("TypeError")
    ELSE Str(<< Slash >> \o joinValues([k \in 1..Len(path) |-> path[k].id], Slash))

\* whether createSegment works on a copy of configLink.parts
createSegmentNeverCopies(data) == FALSE

createSegmentCopies(data) == isPresent(data)

\* the substitution of one part that writes the data value as it is
substitutePartUnencoded(part, data) ==
    IF /\ isPresent(data)
       /\ DOMAIN data.m # {}
       /\ charAt0Is(part, Colon)
       /\ substr(part, 1) \in DOMAIN data.m
    THEN Str(data.m[substr(part, 1)])
    ELSE Str(part)

\* the value the loops of createSegment leave in urlParts[u] (one-based u):
\* a string value, or Throw("URIError") from encodeURIComponent
substitutePart(part, data) ==
    IF /\ isPresent(data)
       /\ DOMAIN data.m # {}
       /\ charAt0Is(part, Colon)
       /\ substr(part, 1) \in DOMAIN data.m
    THEN encodeURIComponent(data.m[substr(part, 1)])
    ELSE Str(part)

\* urlParts when createSegment reaches its return statement, up to the first
\* part whose substitution throws
substituteParts(parts, data) == [u \in 1..Len(parts) |-> substitutePart(parts[u], data)]

\* the segment createSegment returns for the substituted urlParts, or the
\* Throw("URIError") of a substitution
segmentOfParts(urlParts, configLink, data) ==
    IF \E u \in 1..Len(urlParts) : urlParts[u].t = "throw" THEN Throw("URIError")
    ELSE Segment(Str(joinValues(urlParts, Slash)), Str(configLink.name),
                 configLink.component, data)

\* UrlSerializer.createSegment: the segment returned, or Throw("URIError")
createSegment(configLink, data) ==
    segmentOfParts(substituteParts(configLink.parts, data), configLink, data)

\* the strings urlParts holds when createSegment ends: substituted up to the
\* first substitution that throws
partsWritten(urlParts, parts) ==
    [u \in 1..Len(urlParts) |->
        IF \E w \in 1..u : urlParts[w].t = "throw" THEN parts[u] ELSE urlParts[u].v]

\* configLink.parts after createSegment(configLink, data): urlParts is the
\* link's own array unless a copy was made
partsAfterCreateSegment(configLink, data) ==
    IF createSegmentCopies(data) THEN configLink.parts
    ELSE partsWritten(substituteParts(configLink.parts, data), configLink.parts)

\* the table after createSegment(links[j], data); j = 0: no call was made
linksAfterCreateSegment(j, data, links) ==
    IF j = 0 THEN links
    ELSE [links EXCEPT ![j].parts = partsAfterCreateSegment(links[j], data)]

\* the find by identity of the component alone
findByComponentIdentityOnly(component, links) ==
    LET hit(l) == component = l.component IN
    IF \E i \in 1..Len(links) : hit(links[i])
    THEN CHOOSE i \in 1..Len(links) : hit(links[i]) /\ \A k \in 1..(i - 1) : ~hit(links[k])
    ELSE 0

\* links.find(l => component === l.component || component.name === l.name):
\* the index of the link found, 0 when there is none
findByComponent(component, links) ==
    LET hit(l) == component = l.component \/ nameOf(component) = Str(l.name) IN
    IF \E i \in 1..Len(links) : hit(links[i])
    THEN CHOOSE i \in 1..Len(links) : hit(links[i]) /\ \A k \in 1..(i - 1) : ~hit(links[k])
    ELSE 0

\* the segment of the link found, Null when there is none (index 0)
segmentOfFound(i, data, links) ==
    IF i # 0 THEN createSegment(links[i], data) ELSE Null

\* UrlSerializer.serializeComponent: a segment, Null, or Throw("URIError")
serializeComponent(component, data, links) ==
    IF truthy(component)
    THEN segmentOfFound(findByComponent(component, links), data, links)
    ELSE Null

\* the find of createSegmentFromName from link i on: the index of the link
\* found, 0 when there is none, -1 when reading link.component.name throws
RECURSIVE findByNameFrom(_, _, _)
findByNameFrom(nameOrComponent, links, i) ==
    IF i > Len(links) THEN 0
    ELSE IF links[i].component = nameOrComponent THEN i
    ELSE IF Str(links[i].name) = nameOrComponent THEN i
    ELSE IF isBlank(links[i].component) THEN -1
    ELSE IF nameOf(links[i].component) = nameOrComponent THEN i
    ELSE findByNameFrom(nameOrComponent, links, i + 1)

\* the segment of configLink, the link find gave (by its index)
segmentOfName(i, links) ==
    IF i = -1 THEN Throw("TypeError")
    ELSE IF i = 0 THEN Null
    ELSE Segment(Str(links[i].name), Str(links[i].name), links[i].component, Null)

\* UrlSerializer.createSegmentFromName: a segment, Null, or Throw("TypeError")
createSegmentFromName(nameOrComponent, links) ==
    segmentOfName(findByNameFrom(nameOrComponent, links, 1), links)

\* ------------------------------------------------------------------------
\* Inputs
\* ------------------------------------------------------------------------

\* the most route definitions a configuration of the pool has
MaxLinks == 3

\* the most URL parts a raw path of the pool has
MaxUrlParts == 2

\* components: three used by the route definitions, one whose name is a
\* route's name, one that shares its name with CompA, one unrelated
CompA     == Component(1, Lit(<< "A" >>))
CompB     == Component(2, Lit(<< "B" >>))
CompI     == Component(3, Lit(<< "I" >>))
CompNamed == Component(4, Lit(<< "a" >>))
CompTwin  == Component(5, Lit(<< "A" >>))
CompOther == Component(6, Lit(<< "Y" >>))

\* route definitions with distinct names: literal and parameter templates of
\* one and two parts, one without a path, one without a component, one with
\* a '%' and one with a '?' in a literal part
LinkPool ==
    { LinkDef(Lit(<< "a" >>), Undefined, CompA),
      LinkDef(Lit(<< "b" >>), Str(Lit(<< "a", "/", "b" >>)), CompB),
      LinkDef(Lit(<< "i" >>), Str(Lit(<< ":", "i" >>)), Null),
      LinkDef(Lit(<< "i", "b" >>), Str(Lit(<< ":", "i", "/", "b" >>)), CompI),
      LinkDef(Lit(<< "i", "j" >>), Str(Lit(<< ":", "i", "/", ":", "j" >>)), CompA),
      LinkDef(Lit(<< "p" >>), Str(Lit(<< "%" >>)), CompB),
      LinkDef(Lit(<< "q" >>), Str(Lit(<< "a", "?", "b" >>)), CompI) }

UsersId       == Lit(<< "u", "s", "e", "r", "s", "/", ":", "i", "d" >>)
UsersSettings == Lit(<< "u", "s", "e", "r", "s", "/", "s", "e", "t", "t", "i", "n", "g", "s" >>)

\* the two templates users/:id and users/settings, declared without and
\* with a leading '/'
LinkUser          == LinkDef(Lit(<< "u" >>), Str(UsersId), CompA)
LinkSettings      == LinkDef(Lit(<< "s" >>), Str(UsersSettings), CompB)
LinkSlashUser     == LinkDef(Lit(<< "u" >>), Str(<< Slash >> \o UsersId), CompA)
LinkSlashSettings == LinkDef(Lit(<< "s" >>), Str(<< Slash >> \o UsersSettings), CompB)

UsersTables ==
    { << LinkUser, LinkSettings >>, << LinkSettings, LinkUser >> }

SlashUsersTables ==
    { << LinkSlashUser, LinkSlashSettings >>, << LinkSlashSettings, LinkSlashUser >> }

\* the configurations: no list at all, every list of at most MaxLinks pool
\* definitions with distinct names, and the users tables
Configs ==
    { Undefined }
    \cup { Array(c) : c \in { d \in UNION { [1..n -> LinkPool] : n \in 0..MaxLinks } :
                                \A i, k \in 1..Len(d) : i # k => d[i].name # d[k].name } }
    \cup { Array(c) : c \in UsersTables \cup SlashUsersTables }

\* URL parts the raw paths are made of
PartPool ==
    { << >>, Lit(<< "a" >>), Lit(<< "b" >>), Lit(<< "x" >>), Lit(<< "%" >>),
      Lit(<< "%", "2", "F" >>) }

\* raw paths: one to MaxUrlParts parts joined by '/', with and without the
\* leading '/', some with a query or a fragment, and the users paths
RawUrls ==
    LET joined == { join(ps, Slash) :
                        ps \in UNION { [1..n -> PartPool] : n \in 1..MaxUrlParts } }
    IN  joined
        \cup { << Slash >> \o u : u \in joined }
        \cup { Lit(<< "a", "?", "x" >>), Lit(<< "/", "a", "/", "b", "#", "x" >>),
               Lit(<< "a", "/", "x", "?", "b", "#", "a" >>),
               << Slash >> \o UsersSettings, << Slash, Slash >> \o UsersSettings }

\* parameter names and values of the data records; the last value is a lone
\* surrogate
KeyPool == { Lit(<< "i" >>), Lit(<< "j" >>) }

ValuePool ==
    { Lit(<< "x" >>), Lit(<< "a", "/", "b" >>), << >>, Lit(<< "%", "2", "F" >>),
      << 55296 >> }

DataPool ==
    { Null, Undefined }
    \cup { Record(m) : m \in UNION { [K -> ValuePool] : K \in SUBSET KeyPool } }

\* what serializeComponent is asked for
ComponentPool == { CompA, CompB, CompI, CompNamed, CompTwin, CompOther, Null }

\* what createSegmentFromName is asked for: components and names
NameOrComponentPool ==
    { CompA, CompI, CompTwin, Null }
    \cup { Str(Lit(<< "a" >>)), Str(Lit(<< "i", "j" >>)), Str(Lit(<< "A" >>)),
           Str(Lit(<< "I" >>)), Str(Lit(<< "z" >>)) }

\* ------------------------------------------------------------------------
\* The serializer as a state machine
\* ------------------------------------------------------------------------

VARIABLES
    config,   \* the route definitions the constructor was given, as declared
    links,    \* this.links
    op,       \* the last operation called
    arg,      \* its arguments
    ret,      \* what it returned, or the Throw it raised
    chain,    \* how far a createSegment -> serialize -> parse round trip got
    _ids,            \* Tabs._ids
    _tabs,           \* Tabs._tabs
    tabs,            \* Tabs.tabs
    _selectHistory,  \* Tabs._selectHistory
    loading          \* the tabs whose load a select started and has not completed

\* the fields of the Tabs component (src/src/components/tabs/tabs.ts)
tabsVars == << _ids, _tabs, tabs, _selectHistory, loading >>

vars == << config, links, op, arg, ret, chain, tabsVars >>

NoChain == [stage |-> "none"]

\* the constructor: this.links = this.normalizeLinks(config.links)
Init ==
    /\ config \in Configs
    /\ links = normalizeLinks(config)
    /\ op = "constructor"
    /\ arg = config
    /\ ret = Null
    /\ chain = NoChain
    /\ _ids = -1
    /\ _tabs = << >>
    /\ tabs = << >>
    /\ _selectHistory = << >>
    /\ loading = << >>

\* the caller holds no result: it may call any operation with any input
Ready == op \in { "constructor", "ready" }

\* parse(browserUrl) of a raw path, or of the string serialize just returned
\* for the segment createSegment built
Parse ==
    /\ \/ /\ Ready
          /\ \E p \in RawUrls : arg' = Str(p)
          /\ chain' = NoChain
       \/ /\ op = "serialize"
          /\ chain.stage = "serialized"
          /\ ret.t = "string"
          /\ arg' = ret
          /\ chain' = [chain EXCEPT !.stage = "parsed"]
    /\ op' = "parse"
    /\ ret' = parse(arg'.v, links)
    /\ UNCHANGED << config, links, tabsVars >>

\* serialize(path) of the one-segment path of the segment createSegment just
\* returned, or of the path parse just returned
Serialize ==
    /\ \/ /\ op = "createSegment"
          /\ ret.t = "segment"
          /\ arg' = Array(<< ret >>)
          /\ chain' = [chain EXCEPT !.stage = "serialized"]
       \/ /\ op = "parse"
          /\ ret.t = "array"
          /\ arg' = ret
          /\ chain' = NoChain
    /\ op' = "serialize"
    /\ ret' = serialize(arg'.v)
    /\ UNCHANGED << config, links, tabsVars >>

\* createSegment(configLink, data) for a link of the table
CreateSegment ==
    /\ Ready
    /\ \E j \in 1..Len(links), data \in DataPool :
        /\ arg' = [link |-> j, data |-> data]
        /\ ret' = createSegment(links[j], data)
        /\ links' = linksAfterCreateSegment(j, data, links)
        /\ chain' = IF ret'.t = "segment"
                    THEN [stage |-> "built", link |-> j, data |-> data]
                    ELSE NoChain
    /\ op' = "createSegment"
    /\ UNCHANGED << config, tabsVars >>

\* serializeComponent(component, data)
SerializeComponent ==
    /\ Ready
    /\ \E component \in ComponentPool, data \in DataPool :
        /\ arg' = [component |-> component, data |-> data]
        /\ ret' = serializeComponent(component, data, links)
        /\ links' = linksAfterCreateSegment(
                        IF truthy(component) THEN findByComponent(component, links) ELSE 0,
                        data, links)
    /\ op' = "serializeComponent"
    /\ chain' = NoChain
    /\ UNCHANGED << config, tabsVars >>

\* createSegmentFromName(nameOrComponent)
CreateSegmentFromName ==
    /\ Ready
    /\ \E nameOrComponent \in NameOrComponentPool :
        /\ arg' = nameOrComponent
        /\ ret' = createSegmentFromName(nameOrComponent, links)
    /\ op' = "createSegmentFromName"
    /\ chain' = NoChain
    /\ UNCHANGED << config, links, tabsVars >>

\* normalizeLinks(this.links): the table normalized again, in place
NormalizeLinks ==
    /\ Ready
    /\ op' = "normalizeLinks"
    /\ arg' = Array(links)
    /\ links' = normalizeLinks(Array(links))
    /\ ret' = Array(links')
    /\ chain' = NoChain
    /\ UNCHANGED << config, tabsVars >>

\* the caller is done with the result of the last call
Return ==
    /\ ~Ready
    /\ op' = "ready"
    /\ arg' = Null
    /\ ret' = Null
    /\ chain' = NoChain
    /\ UNCHANGED << config, links, tabsVars >>

Next ==
    \/ Parse
    \/ Serialize
    \/ CreateSegment
    \/ SerializeComponent
    \/ CreateSegmentFromName
    \/ NormalizeLinks
    \/ Return

Spec == Init /\ [][Next]_vars

\* ------------------------------------------------------------------------
\* The Tabs component (src/src/components/tabs/tabs.ts)
\* ------------------------------------------------------------------------

\* the most tabs registered with add
MaxTabs == 3

\* the most entries the selection history is let grow to
MaxHistory == 3

\* the most loads that are under way at once
MaxLoading == 2

\* a number, and a reference to the Tab object at position ref of the heap
\* of Tab objects; the objects are the elements of tabs, in the order add
\* registered them
Num(n)    == [t |-> "number", v |-> n]
TabRef(j) == [t |-> "tab", ref |-> j]

\* String(n) for a natural number
RECURSIVE toString(_)
toString(n) ==
    IF n < 10 THEN << Chr("0") + n >>
    ELSE toString(n \div 10) \o << Chr("0") + (n % 10) >>

\* this.id = 't' + (++tabIds) of the first Tabs component
TabsId == Lit(<< "t" >>) \o toString(0)

\* a Tab object as add leaves it: enabled, shown, not selected
Tab(id, root) ==
    [id |-> id, root |-> root, enabled |-> TRUE, show |-> TRUE, isSelected |-> FALSE]

\* tab.id = this.id + '-' + (++this._ids)
tabId(ids) == TabsId \o Lit(<< "-" >>) \o toString(ids)

\* getByIndex(index)
getByIndex(index, ts) ==
    IF index < Len(ts) /\ index > -1 THEN TabRef(index + 1) ELSE Null

\* getSelected(): the first tab of this.tabs that is selected
getSelected(ts) ==
    IF \E j \in 1..Len(ts) : ts[j].isSelected
    THEN TabRef(CHOOSE j \in 1..Len(ts) :
                    /\ ts[j].isSelected
                    /\ \A k \in 1..(j - 1) : ~ts[k].isSelected)
    ELSE Null

\* typeof tabOrIndex === 'number' ? this.getByIndex(tabOrIndex) : tabOrIndex
selectedTabOf(tabOrIndex, ts) ==
    IF tabOrIndex.t = "number" THEN getByIndex(tabOrIndex.v, ts) ELSE tabOrIndex

\* the loads under way after select(tabOrIndex): none is started for no tab
\* or for the tab that is selected already
loadingAfterSelect(selectedTab, ts, pending) ==
    IF isBlank(selectedTab) THEN pending
    ELSE IF selectedTab = getSelected(ts) THEN pending
    ELSE Append(pending, selectedTab.ref)

\* this.tabs.forEach(tab => tab.setSelected(tab === selectedTab)), for a
\* selected tab that has a root
tabsAfterLoad(j, ts) ==
    IF ts[j].root
    THEN [i \in 1..Len(ts) |-> [ts[i] EXCEPT !.isSelected = (i = j)]]
    ELSE ts

\* the history after the load callback of the tab with this id
historyAfterLoad(id, history) ==
    IF Len(history) > 0 /\ history[Len(history)] = id THEN history
    ELSE Append(history, id)

\* list.find(t => t.id === id) over a list of references into the heap ts
findById(list, id, ts) ==
    IF \E j \in 1..Len(list) : ts[list[j]].id = id
    THEN TabRef(list[CHOOSE j \in 1..Len(list) :
                        /\ ts[list[j]].id = id
                        /\ \A k \in 1..(j - 1) : ts[list[k]].id # id])
    ELSE Undefined

\* tab && tab.enabled && tab.show
enabledAndShown(tab, ts) ==
    /\ truthy(tab)
    /\ ts[tab.ref].enabled
    /\ ts[tab.ref].show

\* the loop of previousTab from the zero-based history index i downwards
\* over the list it searches: the index it stops at, or -1
RECURSIVE previousTabIndex(_, _, _, _)
previousTabIndex(i, history, list, ts) ==
    IF i < 0 THEN -1
    ELSE IF enabledAndShown(findById(list, history[i + 1], ts), ts) THEN i
    ELSE previousTabIndex(i - 1, history, list, ts)

\* what the loop returns when it stopped at i
tabAtIndex(i, history, list, ts) ==
    IF i < 0 THEN Null ELSE findById(list, history[i + 1], ts)

\* previousTab(trimHistory): the tab returned
previousTab(history, list, ts) ==
    tabAtIndex(previousTabIndex(Len(history) - 2, history, list, ts), history, list, ts)

\* this._selectHistory.splice(i + 1) when the loop stopped at i
spliceAt(i, trimHistory, history) ==
    IF i >= 0 /\ trimHistory THEN SubSeq(history, 1, i + 1) ELSE history

\* previousTab(trimHistory): the history it leaves
historyAfterPreviousTab(trimHistory, history, list, ts) ==
    spliceAt(previousTabIndex(Len(history) - 2, history, list, ts), trimHistory, history)

\* what select is called with: indexes in and out of range, registered tabs
\* and no tab
TabOrIndexPool(ts) ==
    { Num(n) : n \in -1..MaxTabs } \cup { TabRef(j) : j \in 1..Len(ts) } \cup { Null }

\* the sequence without its k-th element
removeAt(seq, k) == SubSeq(seq, 1, k - 1) \o SubSeq(seq, k + 1, Len(seq))

\* a Tabs component with no tab yet, in an application with no route table
TabsInit ==
    /\ Init
    /\ config = Undefined

\* add(tab), for a tab with or without a root
Add ==
    /\ Len(tabs) < MaxTabs
    /\ _ids' = _ids + 1
    /\ \E root \in BOOLEAN :
        /\ arg' = root
        /\ tabs' = Append(tabs, Tab(tabId(_ids'), root))
    /\ op' = "add"
    /\ ret' = Undefined
    /\ UNCHANGED << _tabs, _selectHistory, loading, config, links, chain >>

\* a tab is enabled or disabled, shown or hidden
TabInput ==
    /\ \E j \in 1..Len(tabs), enabled \in BOOLEAN, show \in BOOLEAN :
        /\ << enabled, show >> # << tabs[j].enabled, tabs[j].show >>
        /\ arg' = TabRef(j)
        /\ tabs' = [tabs EXCEPT ![j].enabled = enabled, ![j].show = show]
    /\ op' = "input"
    /\ ret' = Undefined
    /\ UNCHANGED << _ids, _tabs, _selectHistory, loading, config, links, chain >>

\* select(tabOrIndex) up to the call of selectedTab.load
Select ==
    /\ \E tabOrIndex \in TabOrIndexPool(tabs) :
        /\ arg' = tabOrIndex
        /\ loading' = loadingAfterSelect(selectedTabOf(tabOrIndex, tabs), tabs, loading)
    /\ Len(loading') <= MaxLoading
    /\ op' = "select"
    /\ ret' = Undefined
    /\ UNCHANGED << _ids, _tabs, tabs, _selectHistory, config, links, chain >>

\* the callback select gave to selectedTab.load runs: the select completes
Loaded ==
    /\ \E k \in 1..Len(loading) :
        /\ arg' = TabRef(loading[k])
        /\ tabs' = tabsAfterLoad(loading[k], tabs)
        /\ _selectHistory' = historyAfterLoad(tabs[loading[k]].id, _selectHistory)
        /\ loading' = removeAt(loading, k)
    /\ Len(_selectHistory') <= MaxHistory
    /\ op' = "loaded"
    /\ ret' = Undefined
    /\ UNCHANGED << _ids, _tabs, config, links, chain >>

\* previousTab(trimHistory)
PreviousTab ==
    /\ \E trimHistory \in BOOLEAN :
        /\ arg' = trimHistory
        /\ _selectHistory' = historyAfterPreviousTab(trimHistory, _selectHistory, _tabs, tabs)
    /\ ret' = previousTab(_selectHistory, _tabs, tabs)
    /\ op' = "previousTab"
    /\ UNCHANGED << _ids, _tabs, tabs, loading, config, links, chain >>

TabsNext ==
    \/ Add
    \/ TabInput
    \/ Select
    \/ Loaded
    \/ PreviousTab

TabsSpec == TabsInit /\ [][TabsNext]_vars

\* ------------------------------------------------------------------------
\* Properties
\* ------------------------------------------------------------------------

\* a segment that carries the link's name and view reference
MatchedTo(segment, link) ==
    /\ segment.t = "segment"
    /\ segment.name = Str(link.name)
    /\ segment.component = link.component

\* whether the part is a parameter part
isParameter(part) == charAt0Is(part, Colon)

\* C1: parse returns a NavPath of exactly one segment per template of the
\* table, in table order, segment j being either matched to template j (its
\* name and view reference) or a fallback whose view reference is absent.
C1_OneSegmentPerTemplate ==
    op = "parse" =>
        /\ ret.t = "array"
        /\ Len(ret.v) = Len(links)
        /\ \A j \in 1..Len(links) :
                \/ MatchedTo(ret.v[j], links[j])
                \/ ret.v[j].component = Null

\* the sort key of C2: a's key is not lower than b's when a has more parts,
\* or as many and more leading static parts, or as many of both and no more
\* parameter parts
KeyNotLower(a, b) ==
    \/ Len(a.parts) > Len(b.parts)
    \/ /\ Len(a.parts) = Len(b.parts)
       /\ \/ a.staticParts > b.staticParts
          \/ /\ a.staticParts = b.staticParts
             /\ a.dataParts <= b.dataParts

SameKey(a, b) ==
    /\ Len(a.parts) = Len(b.parts)
    /\ a.staticParts = b.staticParts
    /\ a.dataParts = b.dataParts

\* the position of the route named name in the list as declared
Declared(name) == CHOOSE i \in 1..Len(config.v) : config.v[i].name = name

\* C2: the table is the stable sort of the declared list by the key (part
\* count descending, leading static parts descending, parameter parts
\* ascending): the same routes, every earlier one with a key not lower than
\* every later one's, and routes with the same key in declaration order.
C2_StableSortByKey ==
    IF isBlank(config) THEN links = << >>
    ELSE
        /\ Len(links) = Len(config.v)
        /\ { links[i].name : i \in 1..Len(links) }
                = { config.v[i].name : i \in 1..Len(config.v) }
        /\ \A i, j \in 1..Len(links) :
                i < j =>
                    /\ KeyNotLower(links[i], links[j])
                    /\ SameKey(links[i], links[j])
                            => Declared(links[i].name) < Declared(links[j].name)

\* a table of three routes that the sort reordered and in which two routes
\* with the same key kept their declaration order
C2_Witness ==
    /\ isPresent(config)
    /\ Len(links) = 3
    /\ \E i, j \in 1..3 :
            i < j /\ Declared(links[i].name) > Declared(links[j].name)
    /\ \E i, j \in 1..3 :
            i < j /\ SameKey(links[i], links[j])

\* C3: no operation throws: every call returns a value.
C3_NoOperationThrows == ret.t # "throw"

\* the parameter names of a template
ParameterNames(link) ==
    { substr(link.parts[u], 1) : u \in { w \in 1..Len(link.parts) : isParameter(link.parts[w]) } }

\* a template with at least one parameter part, all of distinct names, and a
\* record that gives each of them a string value
RoundTripCase(link, data) ==
    /\ countData(link.parts) >= 1
    /\ Cardinality(ParameterNames(link)) = countData(link.parts)
    /\ data.t = "record"
    /\ DOMAIN data.m = ParameterNames(link)

\* C4: data round trip: for a template with parameter parts and a record of
\* string values for them, createSegment returns a segment, and parsing the
\* serialized one-segment path gives, at the template's position, a segment
\* matched to the template whose data is the original record.
C4_DataRoundTrip ==
    /\ (op = "createSegment" /\ RoundTripCase(links[arg.link], arg.data))
            => ret.t = "segment"
    /\ (chain.stage = "parsed" /\ RoundTripCase(links[chain.link], chain.data))
            => /\ ret.t = "array"
               /\ MatchedTo(ret.v[chain.link], links[chain.link])
               /\ ret.v[chain.link].data = chain.data

\* a round trip createSegment(t, null) -> serialize -> parse for a template
\* without parameter parts has been made
LiteralRoundTrip ==
    /\ chain.stage = "parsed"
    /\ chain.data = Null
    /\ countData(links[chain.link].parts) = 0

\* the segments of the returned path that are matched to their templates
MatchedPositions == { j \in 1..Len(links) : MatchedTo(ret.v[j], links[j]) }

\* C5 as stated: after the round trip of a literal template exactly one
\* segment of the path is matched, the one with the template's name and view
\* reference.
C5_ExactlyOneMatched ==
    LiteralRoundTrip =>
        /\ ret.t = "array"
        /\ MatchedPositions = { chain.link }

\* whether the string holds none of '?', '#', '%'
Plain(s) == \A k \in 1..Len(s) : s[k] \notin { Question, Hash, Percent }

\* C5 as amended: after the round trip of a literal template whose path holds
\* no '?', '#' or '%', the segment at the template's position is matched to
\* it (its name and view reference); other segments may be matched as well.
C5_OwnSegmentMatched ==
    (LiteralRoundTrip /\ Plain(links[chain.link].path.v)) =>
        /\ ret.t = "array"
        /\ chain.link \in MatchedPositions

\* the round trip of a plain literal template after which a second template
\* is matched too
C5_Witness ==
    /\ LiteralRoundTrip
    /\ Plain(links[chain.link].path.v)
    /\ ret.t = "array"
    /\ chain.link \in MatchedPositions
    /\ Cardinality(MatchedPositions) >= 2

\* the settings template's segment comes before the :id template's, and is
\* matched to the settings template
SettingsMatchedFirst(settings, user) ==
    /\ ret.t = "array"
    /\ Len(ret.v) = 2
    /\ links[1].name = settings.name
    /\ links[2].name = user.name
    /\ MatchedTo(ret.v[1], settings)

\* C6 as stated: with the templates /users/:id and /users/settings, in
\* either order, parse("/users/settings") matches /users/settings, before
\* the segment of /users/:id.
C6_SlashTemplates ==
    (op = "parse" /\ arg = Str(<< Slash >> \o UsersSettings)
        /\ isPresent(config) /\ config.v \in SlashUsersTables)
    => SettingsMatchedFirst(LinkSlashSettings, LinkSlashUser)

\* C6 as amended: with the templates users/:id and users/settings (no
\* leading '/'), in either order, parse("/users/settings") matches
\* users/settings, before the segment of users/:id.
C6_Specificity ==
    (op = "parse" /\ arg = Str(<< Slash >> \o UsersSettings)
        /\ isPresent(config) /\ config.v \in UsersTables)
    => SettingsMatchedFirst(LinkSettings, LinkUser)

\* "/users/settings" parsed with users/:id declared first
C6_Witness ==
    /\ op = "parse"
    /\ arg = Str(<< Slash >> \o UsersSettings)
    /\ config = Array(<< LinkUser, LinkSettings >>)
    /\ SettingsMatchedFirst(LinkSettings, LinkUser)
    /\ MatchedTo(ret.v[2], LinkUser)

\* the least element of a non-empty set of positions
First(S) == CHOOSE i \in S : \A k \in S : i <= k

\* the templates whose view reference is the component asked for
IdentityHits ==
    { j \in 1..Len(links) : links[j].component = arg.component }

\* C7 as stated: serializeComponent gives the segment built from the first
\* template whose view reference is identical to the view, and absent when
\* there is none or the view is absent.
C7_ByIdentityOnly ==
    op = "serializeComponent" =>
        IF isPresent(arg.component) /\ IdentityHits # {}
        THEN ret = createSegment(links[First(IdentityHits)], arg.data)
        ELSE ret = Null

\* the templates whose view reference is the component asked for or whose
\* name is the component's name
IdentityOrNameHits ==
    { j \in 1..Len(links) :
        \/ links[j].component = arg.component
        \/ nameOf(arg.component) = Str(links[j].name) }

\* C7 as amended: serializeComponent gives what createSegment gives for the
\* first template, in table order, whose view reference is identical to the
\* view or whose name equals the view's name property, and absent when there
\* is none or the view is absent.
C7_ByIdentityOrName ==
    op = "serializeComponent" =>
        IF isPresent(arg.component) /\ IdentityOrNameHits # {}
        THEN ret = createSegment(links[First(IdentityOrNameHits)], arg.data)
        ELSE ret = Null

\* a segment returned for a component that is no template's view reference
C7_Witness ==
    /\ op = "serializeComponent"
    /\ isPresent(arg.component)
    /\ IdentityHits = {}
    /\ ret.t = "segment"

\* C8: every segment of a path parse returns has a present, non-empty id.
C8_IdsPresent ==
    (op = "parse" /\ ret.t = "array") =>
        \A j \in 1..Len(ret.v) :
            /\ isPresent(ret.v[j].id)
            /\ ret.v[j].id.v # << >>

MatcherOps ==
    { "parse", "serialize", "serializeComponent", "createSegment", "createSegmentFromName" }

\* C9: the matcher's operations leave the table as it was: the same
\* templates in the same order, with the same fields.
C9_TableReadOnly == [][op' \in MatcherOps => links' = links]_vars

\* createSegment has substituted a value for a parameter part
C9_Witness ==
    /\ op = "createSegment"
    /\ arg.data.t = "record"
    /\ ret.t = "segment"
    /\ ret.id # Str(join(links[arg.link].parts, Slash))

\* C10: normalizing the normalized table gives the same table: the same
\* templates in the same order, with the same parts and counts.
C10_Idempotent == op = "normalizeLinks" => ret = arg

\* a table of three routes, two of them with the same key, normalized again
C10_Witness ==
    /\ op = "normalizeLinks"
    /\ Len(links) = 3
    /\ \E i, j \in 1..3 : i < j /\ SameKey(links[i], links[j])
    /\ \E i, j \in 1..3 : i < j /\ ~SameKey(links[i], links[j])

\* the positions of the history, before its last, whose tab is registered
\* and is enabled and shown
EarlierUsable(history, ts) ==
    { i \in 1..(Len(history) - 1) :
        \E j \in 1..Len(ts) : ts[j].id = history[i] /\ ts[j].enabled /\ ts[j].show }

\* the last of these positions
LastOf(positions) == CHOOSE i \in positions : \A k \in positions : k <= i

\* the registered tab with this id
RegisteredTab(id, ts) == TabRef(CHOOSE j \in 1..Len(ts) : ts[j].id = id)

\* the tab most recently selected before the current one that is enabled
\* and shown, or null when the history holds none
PreviouslySelected(history, ts) ==
    IF EarlierUsable(history, ts) = {} THEN Null
    ELSE RegisteredTab(history[LastOf(EarlierUsable(history, ts))], ts)

\* C11: once every select has completed, previousTab() returns the tab most
\* recently selected before the current one that is enabled and shown, and
\* null only when the selection history holds no such earlier tab.  Stated
\* for tabs that all have a root, so that every tab of the history was shown
\* as the selected one.
C11_PreviousTab ==
    [][(/\ op' = "previousTab"
        /\ loading = << >>
        /\ \A j \in 1..Len(tabs) : tabs[j].root)
            => ret' = PreviouslySelected(_selectHistory, tabs)]_vars

\* the start offsets k (zero-based) with k + |t.parts| <= |u| at which every
\* part of the template t is a parameter part or equals the URL part of u
\* it is lined up with
MatchingOffsets(t, u) ==
    { k \in 0..(Len(u) - Len(t.parts)) :
        \A i \in 1..Len(t.parts) : isParameter(t.parts[i]) \/ t.parts[i] = u[k + i] }

\* the last element of the URL parts sequence
LastPart(u) == Str(u[Len(u)])

\* C12: in the path parse returns, the segment of a template that no start
\* offset matches has id and name equal to the last URL part, and no view
\* reference and no data.
C12_FallbackIsLastPart ==
    (op = "parse" /\ ret.t = "array") =>
        \A j \in 1..Len(links) :
            MatchingOffsets(links[j], urlPartsOf(arg.v)) = {} =>
                ret.v[j] = Segment(LastPart(urlPartsOf(arg.v)), LastPart(urlPartsOf(arg.v)),
                                   Null, Null)

\* the smallest of a non-empty set of offsets
SmallestOf(offsets) == CHOOSE k \in offsets : \A m \in offsets : k <= m

\* u[k .. k+n-1] (zero-based k) joined by '/'
JoinedAt(u, k, n) == join(SubSeq(u, k + 1, k + n), Slash)

\* C13: every template t of the table contributes a matched segment to the
\* path parse returns iff some start offset k with k + |t.parts| <= |u| lines
\* every part of t up with a URL part it equals, or is a parameter part; the
\* segment is then built from the smallest such offset and its id is
\* u[k .. k+|t.parts|-1] joined by '/'.
C13_PerTemplateMatching ==
    op = "parse" =>
        \A j \in 1..Len(links) :
            LET u == urlPartsOf(arg.v)
                K == MatchingOffsets(links[j], u)
            IN  IF K = {}
                THEN ret.t = "array" => ~MatchedTo(ret.v[j], links[j])
                ELSE /\ ret.t = "array"
                     /\ MatchedTo(ret.v[j], links[j])
                     /\ ret.v[j].id = Str(JoinedAt(u, SmallestOf(K), Len(links[j].parts)))

\* whether the data record has a key of the parameter part's name
HasKeyOf(part, data) ==
    /\ isParameter(part)
    /\ isPresent(data)
    /\ substr(part, 1) \in DOMAIN data.m

\* whether every value the data has for a parameter part has a URL encoding
Encodable(parts, data) ==
    \A u \in 1..Len(parts) :
        HasKeyOf(parts[u], data) =>
            encodeURIComponent(data.m[substr(parts[u], 1)]).t = "string"

\* what the claim says a part of the template becomes in the id
IdPart(part, data) ==
    IF HasKeyOf(part, data)
    THEN encodeURIComponent(data.m[substr(part, 1)]).v
    ELSE part

\* C14: the segment createSegment(template, data) returns has as id the
\* template's parts joined by '/', each parameter part whose name is a key of
\* data replaced by the URL-encoded value and every other part left as it
\* is; its name and view reference are the template's and its data is the
\* data record it was given.  A segment is returned only when every value
\* substituted has a URL encoding.
C14_SubstitutesKeyedParameters ==
    (op = "createSegment" /\ ret.t = "segment") =>
        /\ Encodable(links[arg.link].parts, arg.data)
        /\ ret.id = Str(join([u \in 1..Len(links[arg.link].parts) |->
                                IdPart(links[arg.link].parts[u], arg.data)], Slash))
        /\ ret.name = Str(links[arg.link].name)
        /\ ret.component = links[arg.link].component
        /\ ret.data = arg.data

\* createSegment returned a segment for a template with a parameter the data
\* has a key for, whose value the encoding changes, and a parameter it has
\* no key for
C14_Witness ==
    /\ op = "createSegment"
    /\ ret.t = "segment"
    /\ \E u, w \in 1..Len(links[arg.link].parts) :
        /\ HasKeyOf(links[arg.link].parts[u], arg.data)
        /\ IdPart(links[arg.link].parts[u], arg.data) # arg.data.m[substr(links[arg.link].parts[u], 1)]
        /\ isParameter(links[arg.link].parts[w])
        /\ ~HasKeyOf(links[arg.link].parts[w], arg.data)

====
